---- MODULE Spec2Model ----
(***************************************************************************)
(* ClauseGuard: the presence-gated recording controllers.                  *)
(*                                                                         *)
(*   src/src/screen.py           main, start_ffmpeg_record,                *)
(*                               stop_ffmpeg_record                        *)
(*   src/src/webcam_recorder.py  monitor_and_record                        *)
(*   src/src/transcribe_summary.py  main, run_pipeline, ModelClient        *)
(*   src/src/recordings_monitor.py  main, run_worker, file_is_stable       *)
(*   src/src/new_video.py        ModelClient.summarize_streaming           *)
(*                                                                         *)
(* The scripts are separate programs; `program` says which one a           *)
(* behaviour runs.  Time is counted in ticks of 500 ms, so the 1.5 s       *)
(* eyes-lost limit of webcam_recorder.py is 3 ticks.  The thresholds       *)
(* --min-away-ms and --return-ms are command-line integers and are 0, 1    *)
(* or MaxMinAway, respectively MaxReturn, ticks.  The transcript length and*)
(* the chunk_chars parameter of summarize_chunked are counted in one unit  *)
(* of characters and drawn from 0..MaxLen and 1..MaxChunk.                 *)
(* The watch directory of recordings_monitor.py holds up to MaxFiles       *)
(* files, each of a size up to MaxSize.  Spec runs each program once;      *)
(* SpecRerun runs the worker up to MaxRuns times on one input,             *)
(* SpecWebcamFair is the webcam recorder with its loop kept running, and   *)
(* SpecStream is the streaming parser of new_video.py on a response of up  *)
(* to MaxText pieces of text.                                              *)
(***************************************************************************)
EXTENDS Integers, Sequences, FiniteSets, TLC

\* ------------------------------------------------------------------ bounds
MaxNow == 4
MaxDt == 2
MaxMinAway == 2
MaxReturn == 2
MaxSessions == 2
MaxClock == 7
MaxLen == 5
MaxChunk == 2
MaxFiles == 2
MaxSize == 1
MaxRuns == 2
MaxText == 4

\* ------------------------------------------------------- program constants
NumAttempts == 4
MaxRetries == 3
EyeLostTicks == 3

Backends == {"gdigrab", "ddagrab"}
Keys == {"none", "s", "e", "q"}
Programs == {"screen", "webcam_recorder", "transcribe_summary",
             "recordings_monitor"}

None == <<>>
Some(x) == <<x>>

VARIABLES
  program,        \* which script this behaviour runs
  \* ---- screen.py: command line and platform
  min_away_ms, return_ms, video_mode, os_nt,
  \* ---- screen.py main: locals
  pc, now, away_start, back_start, recording, ff_proc,
  \* ---- screen.py start_ffmpeg_record / stop_ffmpeg_record: locals
  idx, stopCtx,
  \* ---- the external capture processes of screen.py, by attempt number
  procs, qWrites,
  \* ---- history of the run of screen.py (observation only)
  runIn, runStart, runLen, runRec, flips, spacing, keysUsed,
  startRequested, stopRequested, startError, launchOrder, graceLog,
  frameError,
  \* ---- webcam_recorder.py monitor_and_record
  wr_pc, wr_clock, wr_recording, wr_proc, wr_last_eye_time, wr_procs,
  wr_quit, wr_reads,
  \* ---- transcribe_summary.py main / run_pipeline
  w_pc, transcript_len, summary_text, files, writes, summary_kind, tmp_dir,
  exit_code, w_error,
  \* ---- transcribe_summary.py ModelClient
  chunk_chars, req, chunk_i, chunks, attempt, reqLog, posts, sleeps,
  reqPosts, reqSleeps, badResponse,
  \* ---- history of the requests of ModelClient (observation only)
  spans, combine_lines, backoffs,
  \* ---- recordings_monitor.py main, the watch directory, the workers
  m_pc, m_todo, m_cur, m_s1, SEEN, m_size, m_workers, m_open,
  \* ---- the output directory of the worker across its runs on one input
  disk, run_no,
  \* ---- new_video.py ModelClient.summarize_streaming and its response
  s_pc, s_text, s_pos, buffer, yielded

cfgVars == <<program, min_away_ms, return_ms, video_mode, os_nt>>
mainVars == <<pc, now, away_start, back_start, recording, ff_proc>>
callVars == <<idx, stopCtx>>
procVars == <<procs, qWrites>>
gateHist == <<runIn, runStart, runLen, runRec, flips, spacing, keysUsed,
              startRequested, stopRequested>>
startHist == <<startError, launchOrder, graceLog>>
histVars == <<gateHist, startHist>>
wrVars == <<wr_pc, wr_clock, wr_recording, wr_proc, wr_last_eye_time, wr_procs,
           wr_quit, wr_reads>>
pipeVars == <<w_pc, transcript_len, summary_text, files, writes, summary_kind,
              tmp_dir, exit_code, w_error>>
clientVars == <<chunk_chars, req, chunk_i, chunks, attempt, reqLog, posts,
                sleeps, reqPosts, reqSleeps, badResponse>>
reqHist == <<spans, combine_lines, backoffs>>
wkVars == <<pipeVars, clientVars, reqHist>>
monVars == <<m_pc, m_todo, m_cur, m_s1, SEEN, m_size, m_workers, m_open>>
diskVars == <<disk, run_no>>
streamVars == <<s_pc, s_text, s_pos, buffer, yielded>>
screenVars == <<mainVars, callVars, procVars, histVars, frameError>>
vars == <<cfgVars, mainVars, callVars, procVars, histVars, frameError, wrVars,
          wkVars, monVars, diskVars, streamVars>>

\* ------------------------------------------------------------ pure helpers

\* screen.py:182  other = "ddagrab" if video_mode == "gdigrab" else "gdigrab"
OtherSame(vm) == vm
Other(vm) == IF vm = "gdigrab" THEN "ddagrab" ELSE "gdigrab"

\* screen.py:177-184  the attempt list: <<backend, with_audio>>
Attempts(vm) ==
  << <<vm, TRUE>>, <<vm, FALSE>>, <<Other(vm), TRUE>>, <<Other(vm), FALSE>> >>

\* screen.py:187  the for loop ends after the last attempt
IsLastAttemptEarly(i, attempts) == i >= Len(attempts) - 1
IsLastAttempt(i, attempts) == i = Len(attempts)

\* screen.py:208 / 222 / 228 / 232  proc.poll() is None
PollIsNoneInverted(st) == st # "running"
PollIsNone(st) == st = "running"

\* screen.py:338  (now - away_start) * 1000 >= args.min_away_ms
AwayArmedAlways(t, a, m) == TRUE
AwayArmed(t, a, m) == (t - a) >= m

\* screen.py:361  (now - back_start) * 1000 >= args.return_ms
BackArmedAlways(t, b, m) == TRUE
BackArmed(t, b, m) == (t - b) >= m

\* screen.py:357  away_start = None   (face in frame)
AwayAfterPresentKept(a) == a
AwayAfterPresent(a) == None

\* screen.py:334  back_start = None   (face out of frame)
BackAfterAbsentKept(b) == b
BackAfterAbsent(b) == None

\* screen.py:335  if not recording:
NotRecordingIgnored(r) == TRUE
NotRecording(r) == ~r

\* webcam_recorder.py:69  if not recording:
WrNotRecording(r) == ~r

\* webcam_recorder.py:77  now - last_eye_time > 1.5
EyesLost(t, last) == (t - last) > EyeLostTicks

\* webcam_recorder.py:96  cv2.waitKey(1) & 0xFF == ord("q")
QuitRead(pending) == pending

\* webcam_recorder.py:80-87 and 104-111  terminate (SIGINT elsewhere), wait up
\* to 5 s, kill and wait on timeout: the process is gone when this returns
WrStopped(ps, p) ==
  IF ps[p] = "running" THEN [ps EXCEPT ![p] = "terminated"] ELSE ps

\* screen.py:222  if proc and proc.poll() is None:
StopNeededUnpolled(p, ps) == p # None
StopNeeded(p, ps) == p # None /\ PollIsNone(ps[p[1]])

\* transcribe_summary.py:257  if not transcript_text:
EmptyTranscriptNever(len) == FALSE
EmptyTranscript(len) == len = 0

\* transcribe_summary.py:150  if len(transcript) <= chunk_chars: (one request)
FitsOneRequestStrict(len, c) == len < c
FitsOneRequest(len, c) == len <= c

\* transcribe_summary.py:156  for i in range(0, len(transcript), chunk_chars)
HasNextChunk(i, len, c) == i + c < len

\* transcribe_summary.py:119  for attempt in range(1, max_retries + 1)
HasNextAttemptExtra(a, max) == a <= max
HasNextAttempt(a, max) == a < max

\* transcribe_summary.py:122  except (ConnectTimeout, ReadTimeout, WriteTimeout,
\* ConnectError): the failures that are retried
RetryableWithStatus(outcome) == outcome \in {"transport", "status"}
Retryable(outcome) == outcome = "transport"

\* transcribe_summary.py:27-30, 81, 138-145, 176-183, 198-201, 247, 258  the
\* exception each failure raises; a missing input returns from main directly
Raised(err) ==
  IF err \in {"bad_config", "no_ffmpeg", "missing_key", "empty_transcript",
              "status", "nonjson"} THEN "SystemExit"
  ELSE IF err = "ffmpeg_failed" THEN "CalledProcessError"
  ELSE IF err \in {"transport", "other_error"} THEN "HTTPError"
  ELSE "Exception"

\* transcribe_summary.py:311-336  the value main returns
ExitCodeOfGeneric(err) == IF err = "none" THEN 0 ELSE 1
ExitCodeOf(err) ==
  IF err = "none" THEN 0
  ELSE IF err = "no_input" THEN 2
  ELSE IF Raised(err) = "CalledProcessError" THEN 3
  ELSE IF Raised(err) = "HTTPError" THEN 4
  ELSE IF Raised(err) = "SystemExit" THEN 5
  ELSE 1

\* transcribe_summary.py:265-266  if not summary_text: summary_text = "_(empty)_"
SummaryWrittenAsIs(text) == text
SummaryWritten(text) == IF text = "empty" THEN "placeholder" ELSE text

\* transcribe_summary.py:157  chunk = transcript[i:i + chunk_chars]: the
\* characters from offset i up to, not including, min(i + chunk_chars, len)
SliceOverlapping(i, len, c) ==
  <<i, IF i + c + 1 < len THEN i + c + 1 ELSE len>>
Slice(i, len, c) == <<i, IF i + c < len THEN i + c ELSE len>>

\* transcribe_summary.py:162  "\n".join(f"- {c}" for c in chunks if c.strip()):
\* the numbers of the chunks whose summary gives a line, in line order
CombineLinesAll(chs) == [k \in 1..Len(chs) |-> k]
CombineLines(chs) ==
  SelectSeq([k \in 1..Len(chs) |-> k], LAMBDA k : chs[k])

\* transcribe_summary.py:124  backoff = min(2 ** attempt, 8)
BackoffDelayLinear(a) == 2 * a
BackoffDelay(a) == IF 2 ^ a < 8 THEN 2 ^ a ELSE 8

\* recordings_monitor.py:21-24  s1 == s2 and s1 > 0
FileIsStableAlways(s1, s2) == TRUE
FileIsStable(s1, s2) == s1 = s2 /\ s1 > 0

\* recordings_monitor.py:40  subprocess.run returns when the worker has
\* exited: main is in the call until then
PcAfterDispatchDetached == "iter"
PcAfterDispatch == "wait"

\* --------------------------------------- new_video.py summarize_streaming

\* the response text is a sequence of pieces of text: the newline, the two
\* halves "dat" and "a: " of the prefix, the JSON objects a and b (a
\* textResponse, close false), z (a textResponse, close true), c (an empty
\* textResponse, close true), and n, a JSON value that is no object (null)
NL == "\n"
Alphabet == {NL, "da", "ta", "a", "b", "z", "c", "n"}
Texts == UNION {[1..k -> Alphabet] : k \in 0..MaxText}

\* new_video.py:167  buffer += chunk
JoinedChunkOnly(buf, chunk) == chunk
Joined(buf, chunk) == buf \o chunk

\* new_video.py:170-171  if line.startswith("data: "): line = line[6:]
StripPrefix(line) ==
  IF Len(line) >= 2 /\ line[1] = "da" /\ line[2] = "ta"
    THEN SubSeq(line, 3, Len(line)) ELSE line

\* new_video.py:172-176, 182-183  line.strip() is empty; json.loads raises
\* JSONDecodeError; or it returns an object, or a value without .get
Decode(line) ==
  IF line = <<>> THEN "empty"
  ELSE IF Len(line) = 1 /\ line[1] \in {"a", "b", "z", "c"} THEN "object"
  ELSE IF Len(line) = 1 /\ line[1] = "n" THEN "nonobject"
  ELSE "invalid"

\* new_video.py:177  parsed.get("textResponse", "")
Piece(obj) == IF obj \in {"a", "b", "z"} THEN obj ELSE ""

\* new_video.py:180  parsed.get("close", False)
ClosesNever(obj) == FALSE
Closes(obj) == obj \in {"z", "c"}

\* new_video.py:168-183  while "\n" in buffer: the lines of the buffer are
\* taken one by one; the result is the buffer left, the pieces yielded and
\* where the generator is (streaming on, returned on close, AttributeError)
RECURSIVE Drain(_, _)
Drain(buf, out) ==
  IF \A i \in 1..Len(buf) : buf[i] # NL
    THEN [buffer |-> buf, out |-> out, pc |-> "stream"]
    ELSE
      LET k == CHOOSE i \in 1..Len(buf) :
                 buf[i] = NL /\ \A j \in 1..(i - 1) : buf[j] # NL
          line == StripPrefix(SubSeq(buf, 1, k - 1))
          rest == SubSeq(buf, k + 1, Len(buf))
      IN
      IF Decode(line) = "object"
        THEN LET out2 == IF Piece(line[1]) # "" THEN Append(out, Piece(line[1]))
                         ELSE out
             IN IF Closes(line[1])
                  THEN [buffer |-> rest, out |-> out2, pc |-> "closed"]
                  ELSE Drain(rest, out2)
      ELSE IF Decode(line) = "nonobject"
        THEN [buffer |-> rest, out |-> out, pc |-> "error"]
      ELSE Drain(rest, out)

\* what client.post can do: raise one of the four retried failures, raise
\* another httpx error, or return a response (2xx JSON, error status,
\* body that is not JSON)
PostOutcomes == {"transport", "other_error", "ok", "status", "nonjson"}

\* transcribe_summary.py:244-247  the three output paths of an input stem
Artifacts == {"transcript", "summary", "meta"}

\* transcribe_summary.py:260, 267, 276  the artifact each write step writes
ArtifactAtMetaFirst(step) ==
  IF step = "write_transcript" THEN "transcript"
  ELSE IF step = "write_summary" THEN "meta" ELSE "summary"
ArtifactAt(step) ==
  IF step = "write_transcript" THEN "transcript"
  ELSE IF step = "write_summary" THEN "summary" ELSE "meta"

Running(ps) == {i \in DOMAIN ps : ps[i] = "running"}

\* ------------------------------------------------------------------- Init
\* screen.py:243-249 the argparse values; webcam_recorder.py has none of them,
\* so they stay at one value when that script runs.
InitState ==
  /\ IF program = "screen"
       THEN /\ min_away_ms \in {0, 1, MaxMinAway}
            /\ return_ms \in {0, 1, MaxReturn}
            /\ video_mode \in Backends
            /\ os_nt \in BOOLEAN
       ELSE /\ min_away_ms = 0 /\ return_ms = 0
            /\ video_mode = "gdigrab" /\ os_nt = TRUE
  /\ pc = "loop" /\ now = 0
  /\ away_start = None /\ back_start = None
  /\ recording = FALSE /\ ff_proc = None
  /\ idx = 0 /\ stopCtx = "none"
  /\ procs = [i \in 1..NumAttempts |-> "none"] /\ qWrites = 0
  /\ runIn = FALSE /\ runStart = 0 /\ runLen = 0
  /\ flips = 0 /\ spacing = 0 /\ keysUsed = FALSE
  /\ startRequested = FALSE /\ stopRequested = FALSE /\ runRec = FALSE
  /\ startError = "none"
  /\ launchOrder = <<>> /\ graceLog = <<>>
  /\ frameError = "none"
  /\ wr_pc = "loop" /\ wr_clock = 0 /\ wr_recording = FALSE /\ wr_proc = None
  /\ wr_last_eye_time = 0
  /\ wr_procs = [i \in 1..MaxSessions |-> "none"]
  /\ wr_quit = FALSE /\ wr_reads = 0
  /\ w_pc = "main" /\ transcript_len = None /\ summary_text = "none"
  /\ files = {} /\ writes = <<>>
  /\ summary_kind = "none" /\ tmp_dir = FALSE /\ exit_code = None
  /\ w_error = "none"
  /\ IF program = "transcribe_summary"
       THEN chunk_chars \in 1..MaxChunk
       ELSE chunk_chars = 1
  /\ req = "none" /\ chunk_i = 0 /\ chunks = <<>> /\ attempt = 0
  /\ reqLog = <<>> /\ posts = 0 /\ sleeps = 0 /\ reqPosts = 0 /\ reqSleeps = 0
  /\ badResponse = FALSE
  /\ spans = <<>> /\ combine_lines = <<>> /\ backoffs = <<>>
  /\ m_pc = "scan" /\ m_todo = {} /\ m_cur = None /\ m_s1 = 0 /\ SEEN = {}
  /\ m_size = [f \in 1..MaxFiles |-> None]
  /\ m_workers = [f \in 1..MaxFiles |-> "none"]
  /\ m_open = {}
  /\ disk = [a \in Artifacts |-> 0] /\ run_no = 1
  /\ s_pc = "stream" /\ s_pos = 0 /\ buffer = <<>> /\ yielded = <<>>

Init ==
  /\ program \in Programs
  /\ InitState
  /\ s_text = <<>>

\* ---------------------------------------------------- screen.py main loop

\* screen.py:304-307  cap.read() fails: break, the finally block runs
FrameGrabFailed ==
  /\ program = "screen" /\ pc = "loop"
  /\ pc' = "finally"
  /\ frameError' = "grab"
  /\ UNCHANGED <<cfgVars, diskVars, streamVars, monVars, wkVars, now, away_start, back_start,
                 recording, ff_proc, callVars, procVars, histVars, wrVars>>

\* screen.py:309  face_in_frame raises (cv2.error on a malformed frame): no
\* except clause in main catches it, the finally block runs and main ends
DetectorRaises ==
  /\ program = "screen" /\ pc = "loop"
  /\ pc' = "finally"
  /\ frameError' = "detector"
  /\ UNCHANGED <<cfgVars, diskVars, streamVars, monVars, wkVars, now, away_start, back_start,
                 recording, ff_proc, callVars, procVars, histVars, wrVars>>

\* screen.py:304-366  one iteration with a good frame: detector answer p,
\* clock advance dt, key k; hotkeys, then the start/stop state machine, up to
\* the call of start_ffmpeg_record or stop_ffmpeg_record.
\* screen.py:317, 338  after S, away_start = now - min_away_ms / 1000.0 and
\* the test (now - away_start) * 1000 >= min_away_ms are binary floating
\* point: the product is min_away_ms (exact) or just below it, by the values
\* of now and min_away_ms (always below for 800 at present-day time.time()),
\* and is min_away_ms when that is 0.  One tick later the test holds.
IterationOn(p, dt, k, exact) ==
  /\ program = "screen" /\ pc = "loop"
  /\ now + dt <= MaxNow
  /\ exact \/ (k = "s" /\ min_away_ms > 0)
  /\ LET t == now + dt
            forced == k = "s"
            in_frame == IF forced THEN FALSE ELSE p
            away1 == IF forced THEN Some(t - min_away_ms) ELSE away_start
            manualStop == k = "e" /\ recording
            quit == k = "q"
            gate == ~manualStop /\ ~quit
            mayStart == gate /\ ~in_frame /\ NotRecording(recording)
            gateStart == /\ mayStart /\ away1 # None
                         /\ AwayArmed(t, away1[1], min_away_ms)
                         /\ (forced => exact)
            mayStop == gate /\ in_frame /\ recording
            gateStop == /\ mayStop /\ back_start # None
                        /\ BackArmed(t, back_start[1], return_ms)
            first == runLen = 0
            same == ~first /\ runIn = p
        IN
        /\ now' = t
        /\ away_start' =
             IF ~gate THEN away1
             ELSE IF in_frame THEN AwayAfterPresent(away1)
             ELSE IF mayStart /\ away1 = None THEN Some(t)
             ELSE away1
        /\ back_start' =
             IF ~gate THEN back_start
             ELSE IF ~in_frame THEN BackAfterAbsent(back_start)
             ELSE IF mayStop /\ back_start = None THEN Some(t)
             ELSE back_start
        /\ pc' = IF manualStop \/ (quit /\ recording) \/ gateStop THEN "stop"
                 ELSE IF quit THEN "finally"
                 ELSE IF gateStart THEN "start_call"
                 ELSE "loop"
        /\ stopCtx' = IF manualStop THEN "manual"
                      ELSE IF quit /\ recording THEN "quit"
                      ELSE IF gateStop THEN "gate"
                      ELSE stopCtx
        /\ runIn' = p
        /\ runStart' = IF same THEN runStart ELSE t
        /\ runLen' = IF same THEN 2 ELSE 1
        /\ flips' = IF ~first /\ runIn # p /\ flips < 2 THEN flips + 1 ELSE flips
        /\ spacing' = IF first THEN 0
                      ELSE IF spacing = 0 \/ spacing = dt THEN dt
                      ELSE -1
        /\ keysUsed' = (keysUsed \/ k # "none")
        /\ runRec' = IF same THEN runRec ELSE recording
        /\ startRequested' = (startRequested \/ gateStart)
        /\ stopRequested' = (stopRequested \/ gateStop)
  /\ UNCHANGED <<cfgVars, diskVars, streamVars, monVars, wkVars, frameError, recording, ff_proc, idx,
                 procVars, startError, launchOrder, graceLog, wrVars>>

Iteration ==
  \E p \in BOOLEAN, dt \in 1..MaxDt, k \in Keys, exact \in BOOLEAN :
     IterationOn(p, dt, k, exact)

\* -------------------------------------------- screen.py start_ffmpeg_record

\* screen.py:353-355  except Exception: print, break
StartFailed(kind) ==
  /\ startError' = kind
  /\ pc' = "finally"

\* screen.py:174-186  entry: not Windows raises at once; else the attempt list
StartEnter ==
  /\ program = "screen" /\ pc = "start_call"
  /\ IF os_nt
       THEN /\ idx' = 1 /\ pc' = "launch" /\ UNCHANGED startError
       ELSE /\ StartFailed("not_nt") /\ UNCHANGED idx
  /\ UNCHANGED <<cfgVars, diskVars, streamVars, monVars, wkVars, frameError, now, away_start, back_start,
                 recording, ff_proc, stopCtx, procVars, gateHist,
                 launchOrder, graceLog, wrVars>>

\* screen.py:193-207  build the command of attempt idx, Popen, start the sleep
Launch ==
  /\ program = "screen" /\ pc = "launch"
  /\ procs' = [procs EXCEPT ![idx] = "running"]
  /\ launchOrder' = Append(launchOrder, Attempts(video_mode)[idx])
  /\ pc' = "grace"
  /\ UNCHANGED <<cfgVars, diskVars, streamVars, monVars, wkVars, frameError, now, away_start, back_start,
                 recording, ff_proc, callVars, qWrites, gateHist,
                 startError, graceLog, wrVars>>

\* screen.py:205  Popen itself raises (OSError): propagates to main's except
LaunchRaises ==
  /\ program = "screen" /\ pc = "launch"
  /\ StartFailed("popen")
  /\ UNCHANGED <<cfgVars, diskVars, streamVars, monVars, wkVars, frameError, now, away_start, back_start,
                 recording, ff_proc, callVars, procVars, gateHist,
                 launchOrder, graceLog, wrVars>>

\* the capture process is scheduled by the OS and may exit at any time
ProcExit ==
  /\ program = "screen"
  /\ \E i \in Running(procs) : procs' = [procs EXCEPT ![i] = "exited"]
  /\ UNCHANGED <<cfgVars, diskVars, streamVars, monVars, wkVars, frameError, mainVars, callVars, qWrites, histVars, wrVars>>

\* screen.py:207-218 and 340-355  after the sleep: poll; alive returns the
\* process to main (ff_proc, recording = True); exited goes to the next
\* attempt, or raises after the last one
GraceCheck ==
  /\ program = "screen" /\ pc = "grace"
  /\ graceLog' = Append(graceLog, procs[idx] = "running")
  /\ IF PollIsNone(procs[idx])
       THEN /\ ff_proc' = Some(idx) /\ recording' = TRUE /\ pc' = "loop"
            /\ UNCHANGED <<idx, startError>>
       ELSE IF IsLastAttempt(idx, Attempts(video_mode))
       THEN /\ StartFailed("exhausted")
            /\ UNCHANGED <<idx, ff_proc, recording>>
       ELSE /\ idx' = idx + 1 /\ pc' = "launch"
            /\ UNCHANGED <<ff_proc, recording, startError>>
  /\ UNCHANGED <<cfgVars, diskVars, streamVars, monVars, wkVars, frameError, now, away_start, back_start,
                 stopCtx, procVars, gateHist, launchOrder,
                 wrVars>>

\* --------------------------------------------- screen.py stop_ffmpeg_record

\* what main does when stop_ffmpeg_record returns
\*   screen.py:322-324 manual: recording = False, break
\*   screen.py:329-330 quit: break
\*   screen.py:364-366 gate: recording = False, break
\*   screen.py:383-386 cleanup: main ends
StopReturn ==
  /\ recording' = IF stopCtx \in {"manual", "gate"} THEN FALSE ELSE recording
  /\ pc' = IF stopCtx = "cleanup" THEN "done" ELSE "finally"

\* screen.py:222-232  entry: nothing to do on an exited process; else write q
\* and wait, or the write raises, the wait is skipped (except: pass) and the
\* process, still alive, is killed
StopEnter ==
  /\ program = "screen" /\ pc = "stop"
  /\ IF StopNeeded(ff_proc, procs)
       THEN \/ /\ qWrites' = qWrites + 1 /\ pc' = "stop_wait"
               /\ UNCHANGED <<recording, procs>>
            \/ /\ procs' = [procs EXCEPT ![ff_proc[1]] = "killed"]
               /\ StopReturn /\ UNCHANGED qWrites
       ELSE /\ StopReturn /\ UNCHANGED <<qWrites, procs>>
  /\ UNCHANGED <<cfgVars, diskVars, streamVars, monVars, wkVars, frameError, now, away_start, back_start,
                 ff_proc, callVars, histVars, wrVars>>

\* the wait ends and the call returns without the final kill
StopFinishNoKill ==
  /\ program = "screen" /\ pc = "stop_wait"
  /\ StopReturn
  /\ UNCHANGED <<cfgVars, diskVars, streamVars, monVars, wkVars, frameError, now, away_start, back_start,
                 ff_proc, callVars, procVars, histVars, wrVars>>

\* screen.py:227-233  the wait ends (exit seen or timeout); kill if still alive
StopFinish ==
  /\ program = "screen" /\ pc = "stop_wait"
  /\ procs' = IF PollIsNone(procs[ff_proc[1]])
                THEN [procs EXCEPT ![ff_proc[1]] = "killed"]
                ELSE procs
  /\ StopReturn
  /\ UNCHANGED <<cfgVars, diskVars, streamVars, monVars, wkVars, frameError, now, away_start, back_start,
                 ff_proc, callVars, qWrites, histVars, wrVars>>

\* --------------------------------------------------- screen.py main: exit

\* screen.py:379-384  finally: release the camera, stop an active recording
Finally ==
  /\ program = "screen" /\ pc = "finally"
  /\ IF recording /\ ff_proc # None
       THEN pc' = "stop" /\ stopCtx' = "cleanup"
       ELSE pc' = "done" /\ UNCHANGED stopCtx
  /\ UNCHANGED <<cfgVars, diskVars, streamVars, monVars, wkVars, frameError, now, away_start, back_start,
                 recording, ff_proc, idx, procVars, histVars, wrVars>>

\* screen.py:302, 379  KeyboardInterrupt raised inside the try block (in the
\* loop, in the sleep of start_ffmpeg_record, in the wait of
\* stop_ffmpeg_record): not an Exception, so only the finally block runs
Interrupt ==
  /\ program = "screen"
  /\ pc \in {"loop", "start_call", "launch", "grace", "stop", "stop_wait"}
  /\ stopCtx # "cleanup"
  /\ pc' = "finally"
  /\ UNCHANGED <<cfgVars, diskVars, streamVars, monVars, wkVars, frameError, now, away_start, back_start,
                 recording, ff_proc, callVars, procVars, gateHist,
                 startError, launchOrder, graceLog, wrVars>>

ScreenNext ==
  \/ FrameGrabFailed \/ DetectorRaises \/ Iteration
  \/ StartEnter \/ Launch \/ LaunchRaises \/ ProcExit \/ GraceCheck
  \/ StopEnter \/ StopFinish
  \/ Finally \/ Interrupt

\* --------------------------------- webcam_recorder.py monitor_and_record

\* number of capture processes started so far
WrLaunched == Cardinality({i \in DOMAIN wr_procs : wr_procs[i] # "none"})

\* webcam_recorder.py:59-61  cap.read() fails: continue (nothing else runs);
\* wr_reads is the parity of the number of cap.read() calls, and time past
\* the horizon MaxClock is not counted
WrReadFailed ==
  /\ program = "webcam_recorder" /\ wr_pc = "loop"
  /\ \E dt \in 1..MaxDt :
       wr_clock' = IF wr_clock + dt <= MaxClock THEN wr_clock + dt ELSE wr_clock
  /\ wr_reads' = 1 - wr_reads
  /\ UNCHANGED <<cfgVars, diskVars, streamVars, monVars, wkVars, frameError, mainVars, callVars, procVars, histVars,
                 wr_pc, wr_recording, wr_proc, wr_last_eye_time, wr_procs, wr_quit>>

\* webcam_recorder.py:96  the user presses q: the key event waits for the
\* next cv2.waitKey call
WrPressQuit ==
  /\ program = "webcam_recorder" /\ wr_pc = "loop" /\ ~wr_quit
  /\ wr_quit' = TRUE
  /\ UNCHANGED <<cfgVars, diskVars, streamVars, monVars, wkVars, frameError, mainVars, callVars, procVars, histVars,
                 wr_pc, wr_clock, wr_recording, wr_proc, wr_last_eye_time, wr_procs,
                 wr_reads>>

\* webcam_recorder.py:59-97  one iteration with a good frame: eyes seen or
\* not, clock advance dt; waitKey returns a pending q and the loop ends
WrIteration ==
  /\ program = "webcam_recorder" /\ wr_pc = "loop"
  /\ \E eyes \in BOOLEAN, dt \in 1..MaxDt :
     /\ wr_clock + dt <= MaxClock
     /\ LET t == wr_clock + dt
            start == eyes /\ WrNotRecording(wr_recording)
            stop == ~eyes /\ wr_recording /\ EyesLost(t, wr_last_eye_time)
        IN
        /\ start => WrLaunched < MaxSessions
        /\ wr_clock' = t
        /\ wr_last_eye_time' = IF eyes THEN t ELSE wr_last_eye_time
        /\ wr_procs' = IF start THEN [wr_procs EXCEPT ![WrLaunched + 1] = "running"]
                       ELSE IF stop THEN WrStopped(wr_procs, wr_proc[1])
                       ELSE wr_procs
        /\ wr_proc' = IF start THEN Some(WrLaunched + 1)
                      ELSE IF stop THEN None
                      ELSE wr_proc
        /\ wr_recording' = IF start THEN TRUE ELSE IF stop THEN FALSE ELSE wr_recording
        /\ wr_pc' = IF QuitRead(wr_quit) THEN "cleanup" ELSE "loop"
  /\ wr_reads' = 1 - wr_reads
  /\ UNCHANGED <<cfgVars, diskVars, streamVars, monVars, wkVars, frameError, mainVars, callVars, procVars, histVars,
                 wr_quit>>

\* the capture process is scheduled by the OS and may exit at any time
WrProcExit ==
  /\ program = "webcam_recorder"
  /\ \E i \in Running(wr_procs) : wr_procs' = [wr_procs EXCEPT ![i] = "exited"]
  /\ UNCHANGED <<cfgVars, diskVars, streamVars, monVars, wkVars, frameError, mainVars, callVars, procVars, histVars, wr_quit, wr_reads,
                 wr_pc, wr_clock, wr_recording, wr_proc, wr_last_eye_time>>

\* webcam_recorder.py:99-111  after the loop: release, stop a last recording
WrCleanup ==
  /\ program = "webcam_recorder" /\ wr_pc = "cleanup"
  /\ wr_procs' = IF wr_recording /\ wr_proc # None
                   THEN WrStopped(wr_procs, wr_proc[1])
                   ELSE wr_procs
  /\ wr_pc' = "done"
  /\ UNCHANGED <<cfgVars, diskVars, streamVars, monVars, wkVars, frameError, mainVars, callVars, procVars, histVars, wr_quit, wr_reads,
                 wr_clock, wr_recording, wr_proc, wr_last_eye_time>>

WebcamNext ==
  WrReadFailed \/ WrPressQuit \/ WrIteration \/ WrProcExit \/ WrCleanup

\* ------------------------------------- transcribe_summary.py main, pipeline

\* a failure that is recorded while the pipeline goes on to the summary write
ExitSwallowed(code, err) ==
  /\ w_pc' = "write_summary" /\ exit_code' = exit_code /\ w_error' = err

\* transcribe_summary.py:308-336  main returns code; err names the failure
Exit(code, err) ==
  /\ w_pc' = "exit" /\ exit_code' = Some(code) /\ w_error' = err

\* a failure err ends main with the code main returns for it
Fail(err) == Exit(ExitCodeOf(err), err)

\* transcribe_summary.py:310-313, 234-247  input missing returns 2; config
\* unreadable or ffmpeg not found raise SystemExit (5)
Main ==
  /\ program = "transcribe_summary" /\ w_pc = "main"
  /\ \E outcome \in {"ok", "no_input", "bad_config", "no_ffmpeg"} :
       IF outcome = "ok"
         THEN w_pc' = "extract" /\ UNCHANGED <<exit_code, w_error>>
         ELSE Fail(outcome)
  /\ UNCHANGED <<cfgVars, diskVars, streamVars, monVars, screenVars, wrVars, clientVars, reqHist, transcript_len,
                 summary_text, files, writes, summary_kind, tmp_dir>>

\* transcribe_summary.py:188-204, 325-327, 334-336  mkdtemp, run ffmpeg:
\* non-zero exit is CalledProcessError (3), no WAV is RuntimeError (1)
ExtractAudio ==
  /\ program = "transcribe_summary" /\ w_pc = "extract"
  /\ tmp_dir' = TRUE
  /\ \E outcome \in {"ok", "ffmpeg_failed", "no_wav"} :
       IF outcome = "ok"
         THEN w_pc' = "transcribe" /\ UNCHANGED <<exit_code, w_error>>
         ELSE Fail(outcome)
  /\ UNCHANGED <<cfgVars, diskVars, streamVars, monVars, screenVars, wrVars, clientVars, reqHist, transcript_len,
                 summary_text, files, writes, summary_kind>>

\* transcribe_summary.py:252-258  load the model, transcribe; a model error
\* is an unexpected error (1), empty text raises SystemExit (5)
Transcribe ==
  /\ program = "transcribe_summary" /\ w_pc = "transcribe"
  /\ \/ /\ Fail("model_error") /\ UNCHANGED transcript_len
     \/ \E len \in 0..MaxLen :
          /\ transcript_len' = Some(len)
          /\ IF EmptyTranscript(len)
               THEN Fail("empty_transcript")
               ELSE w_pc' = "write_transcript" /\ UNCHANGED <<exit_code, w_error>>
  /\ UNCHANGED <<cfgVars, diskVars, streamVars, monVars, screenVars, wrVars, clientVars, reqHist, summary_text, files,
                 writes, summary_kind, tmp_dir>>

\* transcribe_summary.py:260  transcript_path.write_text
WriteTranscript ==
  /\ program = "transcribe_summary" /\ w_pc = "write_transcript"
  /\ files' = files \cup {ArtifactAt(w_pc)}
  /\ writes' = Append(writes, ArtifactAt(w_pc))
  /\ disk' = [disk EXCEPT ![ArtifactAt(w_pc)] = run_no]
  /\ w_pc' = "client"
  /\ UNCHANGED <<cfgVars, run_no, streamVars, monVars, screenVars, wrVars, clientVars, reqHist, transcript_len,
                 summary_text, summary_kind, tmp_dir, exit_code, w_error>>

\* ------------------------------------- transcribe_summary.py ModelClient

\* transcribe_summary.py:130-136, 157-159, 168-174  a logical request of the
\* given kind enters _post_with_retries
BeginRequest(kind) ==
  /\ req' = kind /\ reqLog' = Append(reqLog, kind)
  /\ attempt' = 1 /\ reqPosts' = 0 /\ reqSleeps' = 0 /\ backoffs' = <<>>
  /\ w_pc' = "post"

\* transcribe_summary.py:263-264, 75-81, 148-159  ModelClient(cfg): a missing
\* key raises SystemExit (5); then summarize_chunked starts its first request
ClientInit ==
  /\ program = "transcribe_summary" /\ w_pc = "client"
  /\ \/ /\ Fail("missing_key")
        /\ UNCHANGED <<req, reqLog, attempt, reqPosts, reqSleeps, backoffs,
                       spans>>
     \/ /\ IF FitsOneRequest(transcript_len[1], chunk_chars)
             THEN BeginRequest("direct") /\ UNCHANGED spans
             ELSE /\ BeginRequest("chunk")
                  /\ spans' = <<Slice(0, transcript_len[1], chunk_chars)>>
        /\ UNCHANGED <<exit_code, w_error>>
  /\ UNCHANGED <<cfgVars, diskVars, streamVars, monVars, screenVars, wrVars, transcript_len, summary_text,
                 files, writes, summary_kind, tmp_dir, chunk_chars, chunk_i,
                 chunks, posts, sleeps, badResponse, combine_lines>>

\* transcribe_summary.py:119-123, 136-146, 159-184  one client.post of the
\* current request and what follows it without blocking: a retried failure
\* goes to the backoff sleep; another error leaves as httpx.HTTPError (4); an
\* error status or a non-JSON body raises SystemExit (5); a good response
\* yields its text (nonempty or not) to summarize_chunked
Post ==
  /\ program = "transcribe_summary" /\ w_pc = "post"
  /\ posts' = posts + 1
  /\ \E outcome \in PostOutcomes, nonempty \in BOOLEAN :
       /\ (outcome # "ok") => nonempty
       /\ badResponse' = (badResponse \/ outcome \in {"status", "nonjson"})
       /\ IF Retryable(outcome)
            THEN /\ w_pc' = "backoff" /\ reqPosts' = reqPosts + 1
                 /\ UNCHANGED <<exit_code, w_error, summary_text, req, reqLog,
                                attempt, reqSleeps, chunk_i, chunks, reqHist>>
          ELSE IF outcome # "ok"
            THEN /\ Fail(outcome)
                 /\ reqPosts' = reqPosts + 1
                 /\ UNCHANGED <<summary_text, req, reqLog, attempt, reqSleeps,
                                chunk_i, chunks, reqHist>>
          ELSE IF req = "chunk"
            THEN /\ chunks' = Append(chunks, nonempty)
                 /\ IF HasNextChunk(chunk_i, transcript_len[1], chunk_chars)
                      THEN /\ chunk_i' = chunk_i + chunk_chars
                           /\ spans' = Append(spans,
                                  Slice(chunk_i + chunk_chars,
                                        transcript_len[1], chunk_chars))
                           /\ BeginRequest("chunk")
                           /\ UNCHANGED combine_lines
                      ELSE /\ combine_lines' =
                                  CombineLines(Append(chunks, nonempty))
                           /\ BeginRequest("combine")
                           /\ UNCHANGED <<chunk_i, spans>>
                 /\ UNCHANGED <<exit_code, w_error, summary_text>>
          ELSE /\ summary_text' = IF nonempty THEN "text" ELSE "empty"
               /\ w_pc' = "write_summary" /\ reqPosts' = reqPosts + 1
               /\ UNCHANGED <<exit_code, w_error, req, reqLog, attempt,
                              reqSleeps, chunk_i, chunks, reqHist>>
  /\ UNCHANGED <<cfgVars, diskVars, streamVars, monVars, screenVars, wrVars, transcript_len, files, writes,
                 summary_kind, tmp_dir, chunk_chars, sleeps>>

\* transcribe_summary.py:123-127, 328-330  time.sleep(backoff), then the next
\* attempt, or raise last_err when the attempts are used up (4)
Backoff ==
  /\ program = "transcribe_summary" /\ w_pc = "backoff"
  /\ sleeps' = sleeps + 1 /\ reqSleeps' = reqSleeps + 1
  /\ backoffs' = Append(backoffs, BackoffDelay(attempt))
  /\ IF HasNextAttempt(attempt, MaxRetries)
       THEN /\ attempt' = attempt + 1 /\ w_pc' = "post"
            /\ UNCHANGED <<exit_code, w_error>>
       ELSE /\ Fail("transport") /\ UNCHANGED attempt
  /\ UNCHANGED <<cfgVars, diskVars, streamVars, monVars, screenVars, wrVars, transcript_len, summary_text,
                 files, writes, summary_kind, tmp_dir, chunk_chars, req,
                 chunk_i, chunks, reqLog, posts, reqPosts, badResponse,
                 spans, combine_lines>>

\* transcribe_summary.py:265-267  placeholder for an empty summary, write
WriteSummary ==
  /\ program = "transcribe_summary" /\ w_pc = "write_summary"
  /\ summary_kind' = SummaryWritten(summary_text)
  /\ files' = files \cup {ArtifactAt(w_pc)}
  /\ writes' = Append(writes, ArtifactAt(w_pc))
  /\ disk' = [disk EXCEPT ![ArtifactAt(w_pc)] = run_no]
  /\ w_pc' = "write_meta"
  /\ UNCHANGED <<cfgVars, run_no, streamVars, monVars, screenVars, wrVars, clientVars, reqHist, transcript_len,
                 summary_text, tmp_dir, exit_code, w_error>>

\* transcribe_summary.py:269-276  meta_path.write_text
WriteMeta ==
  /\ program = "transcribe_summary" /\ w_pc = "write_meta"
  /\ files' = files \cup {ArtifactAt(w_pc)}
  /\ writes' = Append(writes, ArtifactAt(w_pc))
  /\ disk' = [disk EXCEPT ![ArtifactAt(w_pc)] = run_no]
  /\ w_pc' = "cleanup"
  /\ UNCHANGED <<cfgVars, run_no, streamVars, monVars, screenVars, wrVars, clientVars, reqHist, transcript_len,
                 summary_text, summary_kind, tmp_dir, exit_code, w_error>>

\* transcribe_summary.py:278-288, 324  rmtree of the temp dir, return 0
Cleanup ==
  /\ program = "transcribe_summary" /\ w_pc = "cleanup"
  /\ tmp_dir' = FALSE
  /\ Exit(ExitCodeOf("none"), "none")
  /\ UNCHANGED <<cfgVars, diskVars, streamVars, monVars, screenVars, wrVars, clientVars, reqHist, transcript_len,
                 summary_text, files, writes, summary_kind>>

WorkerNext ==
  \/ Main \/ ExtractAudio \/ Transcribe \/ WriteTranscript \/ ClientInit
  \/ Post \/ Backoff \/ WriteSummary \/ WriteMeta \/ Cleanup

\* ---------------------------------------------- recordings_monitor.py main

\* webcam_recorder.py:69-76, run_all.py:12-14  a capture process is started
\* on a new file of the watch directory, or a running one appends to its file
FileWritten ==
  /\ program = "recordings_monitor" /\ m_pc # "done"
  /\ \E f \in 1..MaxFiles :
       IF m_size[f] = None
         THEN /\ m_size' = [m_size EXCEPT ![f] = Some(0)]
              /\ m_open' = m_open \cup {f}
         ELSE /\ f \in m_open /\ m_size[f][1] < MaxSize
              /\ m_size' = [m_size EXCEPT ![f] = Some(m_size[f][1] + 1)]
              /\ UNCHANGED m_open
  /\ UNCHANGED <<cfgVars, diskVars, streamVars, screenVars, wrVars, wkVars, m_pc, m_todo, m_cur,
                 m_s1, SEEN, m_workers>>

\* webcam_recorder.py:77-89, 104-111  the recording session is stopped: its
\* capture process has ended and the file is final
WriterDone ==
  /\ program = "recordings_monitor" /\ m_pc # "done"
  /\ \E f \in m_open : m_open' = m_open \ {f}
  /\ UNCHANGED <<cfgVars, diskVars, streamVars, screenVars, wrVars, wkVars, m_pc, m_todo, m_cur,
                 m_s1, SEEN, m_size, m_workers>>

\* recordings_monitor.py:56-57, 62  after the sleep a pass starts: iterdir
\* lists the files that are in the directory
MonScan ==
  /\ program = "recordings_monitor" /\ m_pc = "scan"
  /\ m_todo' = {f \in 1..MaxFiles : m_size[f] # None}
  /\ m_pc' = "iter"
  /\ UNCHANGED <<cfgVars, diskVars, streamVars, screenVars, wrVars, wkVars, m_open, m_cur, m_s1, SEEN,
                 m_size, m_workers>>

\* recordings_monitor.py:57-59, 20-22, 62  the next file of the pass: one
\* already in SEEN is skipped, another has its size read and the 1 s wait of
\* file_is_stable starts; with no file left the pass ends in the poll sleep
MonNext ==
  /\ program = "recordings_monitor" /\ m_pc = "iter"
  /\ IF m_todo = {}
       THEN m_pc' = "scan" /\ UNCHANGED <<m_todo, m_cur, m_s1>>
       ELSE \E f \in m_todo :
              /\ m_todo' = m_todo \ {f}
              /\ IF f \in SEEN
                   THEN UNCHANGED <<m_pc, m_cur, m_s1>>
                   ELSE /\ m_cur' = Some(f) /\ m_s1' = m_size[f][1]
                        /\ m_pc' = "stat"
  /\ UNCHANGED <<cfgVars, diskVars, streamVars, screenVars, wrVars, wkVars, m_open, SEEN, m_size, m_workers>>

\* recordings_monitor.py:23-24, 59-61, 29-40  the second size is read: a
\* stable file is added to SEEN and the worker is started on it
MonStable ==
  /\ program = "recordings_monitor" /\ m_pc = "stat"
  /\ IF FileIsStable(m_s1, m_size[m_cur[1]][1])
       THEN /\ SEEN' = SEEN \cup {m_cur[1]}
            /\ m_workers' = [m_workers EXCEPT ![m_cur[1]] = "running"]
            /\ m_pc' = PcAfterDispatch
       ELSE /\ m_pc' = "iter" /\ UNCHANGED <<SEEN, m_workers>>
  /\ UNCHANGED <<cfgVars, diskVars, streamVars, screenVars, wrVars, wkVars, m_open, m_todo, m_cur, m_s1,
                 m_size>>

\* recordings_monitor.py:40-43  the worker exits, with 0 or not; run returns
\* or raises CalledProcessError, which is caught: the pass goes on
MonWorkerExit ==
  /\ program = "recordings_monitor"
  /\ \E f \in 1..MaxFiles, rc \in {"ok", "failed"} :
       /\ m_workers[f] = "running"
       /\ m_workers' = [m_workers EXCEPT ![f] = rc]
       /\ m_pc' = IF m_pc = "wait" /\ m_cur = Some(f) THEN "iter" ELSE m_pc
  /\ UNCHANGED <<cfgVars, diskVars, streamVars, screenVars, wrVars, wkVars, m_open, m_todo, m_cur, m_s1,
                 SEEN, m_size>>

\* recordings_monitor.py:54, 40  Ctrl+C: KeyboardInterrupt ends main; raised
\* inside subprocess.run, run kills the worker before it re-raises
MonInterrupt ==
  /\ program = "recordings_monitor" /\ m_pc # "done"
  /\ m_pc' = "done"
  /\ m_workers' = [f \in 1..MaxFiles |->
                     IF m_workers[f] = "running" /\ m_pc = "wait"
                          /\ m_cur = Some(f)
                       THEN "killed" ELSE m_workers[f]]
  /\ UNCHANGED <<cfgVars, diskVars, streamVars, screenVars, wrVars, wkVars, m_open, m_todo, m_cur, m_s1,
                 SEEN, m_size>>

MonitorNext ==
  \/ FileWritten \/ WriterDone \/ MonScan \/ MonNext \/ MonStable
  \/ MonWorkerExit \/ MonInterrupt

Next == ScreenNext \/ WebcamNext \/ WorkerNext \/ MonitorNext

Spec == Init /\ [][Next]_vars

\* ------------------------- webcam_recorder.py as long as the process runs

InitWebcam == Init /\ program = "webcam_recorder"

\* the interpreter keeps executing the loop and the cleanup after it; the
\* camera and the user are left free
WrStep == WrReadFailed \/ WrIteration \/ WrCleanup

SpecWebcamFair == InitWebcam /\ [][WebcamNext]_vars /\ WF_vars(WrStep)

\* ------------------------------- new_video.py summarize_streaming, running

\* new_video.py:164-183  the transport hands over the next chunk, of any
\* length (an empty chunk is skipped at 165-166); the lines it completes are
\* processed
StreamChunk ==
  /\ program = "new_video" /\ s_pc = "stream" /\ s_pos < Len(s_text)
  /\ \E n \in 1..(Len(s_text) - s_pos) :
       LET r == Drain(Joined(buffer, SubSeq(s_text, s_pos + 1, s_pos + n)),
                      yielded)
       IN /\ s_pos' = s_pos + n
          /\ buffer' = r.buffer /\ yielded' = r.out /\ s_pc' = r.pc
  /\ UNCHANGED <<cfgVars, diskVars, monVars, screenVars, wrVars, wkVars, s_text>>

\* new_video.py:164  the response is exhausted: the async for ends, what is
\* left in the buffer is dropped
StreamEnd ==
  /\ program = "new_video" /\ s_pc = "stream" /\ s_pos = Len(s_text)
  /\ s_pc' = "ended"
  /\ UNCHANGED <<cfgVars, diskVars, monVars, screenVars, wrVars, wkVars, s_text,
                 s_pos, buffer, yielded>>

InitStream ==
  /\ program = "new_video"
  /\ InitState
  /\ s_text \in Texts

StreamNext == StreamChunk \/ StreamEnd

SpecStream == InitStream /\ [][StreamNext]_vars

\* ------------------------------- transcribe_summary.py run again on an input

\* recordings_monitor.py:29-40, 13  the worker is started again on the same
\* input (SEEN is empty in every new monitor process, or the user runs the
\* worker by hand): a new process, the output directory as the runs before
\* left it
WorkerRestart ==
  /\ program = "transcribe_summary" /\ w_pc = "exit" /\ run_no < MaxRuns
  /\ run_no' = run_no + 1
  /\ w_pc' = "main" /\ transcript_len' = None /\ summary_text' = "none"
  /\ files' = {} /\ writes' = <<>>
  /\ summary_kind' = "none" /\ tmp_dir' = FALSE /\ exit_code' = None
  /\ w_error' = "none"
  /\ req' = "none" /\ chunk_i' = 0 /\ chunks' = <<>> /\ attempt' = 0
  /\ reqLog' = <<>> /\ posts' = 0 /\ sleeps' = 0 /\ reqPosts' = 0
  /\ reqSleeps' = 0 /\ badResponse' = FALSE
  /\ spans' = <<>> /\ combine_lines' = <<>> /\ backoffs' = <<>>
  /\ UNCHANGED <<cfgVars, streamVars, monVars, screenVars, wrVars, chunk_chars, disk>>

InitRerun == Init /\ program = "transcribe_summary"

NextRerun == WorkerNext \/ WorkerRestart

SpecRerun == InitRerun /\ [][NextRerun]_vars

\* ------------------------------------------------------------ properties

\* C1: with no hotkey pressed, the controller requests a capture start only
\* on an absent sample that ends a run of absent samples which began at an
\* earlier sample t0 with now - t0 >= min_away_ms.
C1_StartOnlyAfterAwayRun ==
  [][ (~startRequested /\ startRequested' /\ ~keysUsed')
        => (/\ ~runIn' /\ runLen' >= 2
            /\ now' - runStart' >= min_away_ms) ]_vars

C1_Witness ==
  /\ pc = "start_call" /\ startRequested /\ ~keysUsed
  /\ min_away_ms = MaxMinAway /\ now - runStart >= min_away_ms

\* C2: with no hotkey pressed, a running recording is stopped by the state
\* machine only on a present sample that ends a run of present samples which
\* began, while recording, at an earlier sample t0 with now - t0 >= return_ms.
C2_StopOnlyAfterBackRun ==
  [][ (~stopRequested /\ stopRequested' /\ ~keysUsed')
        => (/\ recording /\ runIn' /\ runLen' >= 2 /\ runRec'
            /\ now' - runStart' >= return_ms) ]_vars

C2_Witness ==
  /\ pc = "stop" /\ stopCtx = "gate" /\ stopRequested /\ ~keysUsed
  /\ return_ms >= 1 /\ now - runStart >= return_ms

\* C3: with no hotkey pressed, while idle the away timer is unset after every
\* present sample and otherwise holds the time of the first absent sample
\* after the last present one; while recording the back timer is unset after
\* every absent sample and otherwise holds the time of the first present
\* sample after the last absent one.
C3_TimersRestartWithRun ==
  ~keysUsed =>
    /\ (~recording /\ ~startRequested) =>
          away_start = IF runLen > 0 /\ ~runIn THEN Some(runStart) ELSE None
    /\ recording =>
          back_start = IF runIn /\ runRec THEN Some(runStart) ELSE None

C3_Witness ==
  /\ ~keysUsed /\ flips = 2 /\ ~runIn /\ runLen >= 2
  /\ pc = "start_call" /\ away_start = Some(runStart) /\ min_away_ms >= 1

\* C4: with no hotkey pressed and uniformly spaced samples, in an all-absent
\* run from the start the capture start has been requested exactly when the
\* current sample is min_away_ms or more after the first absent sample, and
\* in the all-present run that follows a successful start the stop has been
\* requested exactly when the current sample is return_ms or more after the
\* first present sample.
C4_FiresAtFirstSampleOverThreshold ==
  (~keysUsed /\ spacing # -1) =>
    /\ (runLen > 0 /\ flips = 0 /\ ~runIn) =>
          (startRequested <=> now - runStart >= min_away_ms)
    /\ (flips = 1 /\ runIn /\ runRec /\ ff_proc # None) =>
          (stopRequested <=> now - runStart >= return_ms)

\* C5: the attempts are launched in list order, attempt k+1 only after
\* attempt k was found exited at its grace check, and the process returned is
\* the one of the first attempt found alive at its grace check, after which
\* no further attempt is launched.
C5_AttemptsInOrder ==
  /\ Len(launchOrder) <= NumAttempts
  /\ \A k \in 1..Len(launchOrder) : launchOrder[k] = Attempts(video_mode)[k]
  /\ \A k \in 1..(Len(launchOrder) - 1) :
        /\ Len(graceLog) >= k /\ ~graceLog[k]
        /\ procs[k] = "exited"
  /\ \A k \in 1..Len(graceLog) :
        graceLog[k] => (ff_proc = Some(k) /\ Len(launchOrder) = k)
  /\ ff_proc # None => (ff_proc[1] <= Len(graceLog) /\ graceLog[ff_proc[1]])

C5_Witness ==
  /\ ff_proc = Some(3) /\ recording /\ graceLog = <<FALSE, FALSE, TRUE>>

\* C6: when every attempt's process has exited by its grace check,
\* start_ffmpeg_record raises after all four attempts were launched, and
\* none of the processes it launched is running when it raises.
C6_AllFailedRaises ==
  /\ startError = "exhausted" =>
        /\ Len(launchOrder) = NumAttempts
        /\ \A i \in 1..NumAttempts : procs[i] = "exited"
        /\ ~recording /\ ff_proc = None
  /\ (Len(graceLog) = NumAttempts /\ \A k \in 1..NumAttempts : ~graceLog[k])
        => startError = "exhausted"

C6_Witness ==
  /\ startError = "exhausted" /\ pc = "finally" /\ Len(graceLog) = NumAttempts

\* C7: for the configured backend B with alternate A the attempt list is
\* (B, audio), (B, video-only), (A, audio), (A, video-only), and the commands
\* launched follow it.
C7_FallbackOrder ==
  /\ \A B \in Backends :
       LET A == CHOOSE a \in Backends : a # B
       IN Attempts(B) = << <<B, TRUE>>, <<B, FALSE>>, <<A, TRUE>>, <<A, FALSE>> >>
  /\ LET alt == CHOOSE a \in Backends : a # video_mode
         expected == << <<video_mode, TRUE>>, <<video_mode, FALSE>>,
                        <<alt, TRUE>>, <<alt, FALSE>> >>
     IN launchOrder = SubSeq(expected, 1, Len(launchOrder))

C7_Witness ==
  /\ video_mode = "ddagrab" /\ Len(launchOrder) = NumAttempts
  /\ launchOrder[3] = <<"gdigrab", TRUE>>

\* C8: when start_ffmpeg_record fails with every attempt exhausted, the
\* controller is idle and back in the sampling loop.
C8_LoopSurvivesStartFailure ==
  [][ (startError = "none" /\ startError' = "exhausted")
        => (pc' = "loop" /\ ~recording') ]_vars

\* C9: once the controller has exited, no capture process it launched is
\* running.
C9_NoOrphanAfterExit ==
  pc = "done" => Running(procs) = {}

\* C10: at most one capture process started by the controller is alive, and
\* the capture start is never called while recording (screen.py main and
\* webcam_recorder.monitor_and_record).
C10_AtMostOneCapture ==
  /\ Cardinality(Running(procs)) <= 1
  /\ pc \in {"start_call", "launch", "grace"} => ~recording
  /\ Cardinality(Running(wr_procs)) <= 1
  /\ \A i \in Running(wr_procs) : wr_recording /\ wr_proc = Some(i)

C10_Witness ==
  /\ pc = "loop" /\ recording /\ ~runIn /\ runLen >= 2
  /\ away_start # None /\ now - away_start[1] >= min_away_ms
  /\ Running(procs) = {ff_proc[1]}

\* C11: a failed frame grab or a detector exception on one frame does not
\* end the presence-sampling loop: after it the controller is still in the
\* loop (or calling start, as an absent sample could make it).
C11_BadFrameKeepsLoop ==
  [][ (frameError = "none" /\ frameError' # "none")
        => pc' \in {"loop", "start_call"} ]_vars

\* C12: stop_ffmpeg_record writes the stop character only to a process that
\* is running and kills only a process that is running; called on a handle
\* whose process has exited or was already stopped it returns to main
\* without a write, a kill, an error or any change of a process state.
C12_StopIdempotent ==
  [][ /\ (qWrites' # qWrites) =>
            (ff_proc # None /\ procs[ff_proc[1]] = "running")
      /\ \A i \in 1..NumAttempts :
            (procs'[i] = "killed" /\ procs[i] # "killed") =>
               (procs[i] = "running" /\ ff_proc = Some(i))
      /\ (pc = "stop" /\ ff_proc # None /\ procs[ff_proc[1]] # "running"
            /\ pc' # pc) =>
               (/\ qWrites' = qWrites /\ procs' = procs
                /\ pc' \in {"finally", "done"} /\ startError' = startError)
    ]_vars

C12_Witness ==
  /\ pc = "done" /\ stopCtx = "cleanup" /\ recording /\ keysUsed
  /\ ff_proc # None /\ procs[ff_proc[1]] = "killed" /\ qWrites = 1

\* C13: at the end of every iteration of the controller loop at most one of
\* the away timer and the back timer is set.
C13_AtMostOneTimer == ~(away_start # None /\ back_start # None)

C13_Witness ==
  /\ pc = "loop" /\ recording /\ startRequested /\ ~keysUsed
  /\ back_start # None /\ away_start = None

\* C14: whenever the controller is recording, the away timer is unset.
C14_RecordingImpliesAwayUnset == recording => away_start = None

\* C15: an iteration that reads the force-start key while idle ends with the
\* capture start requested and the back timer unset, whatever the detector
\* said; an iteration that reads the stop key while recording ends with the
\* capture stop requested, whatever the back timer holds.
C15_ManualOverrideSameIteration ==
  [][ \A p \in BOOLEAN, dt \in 1..MaxDt, exact \in BOOLEAN :
        /\ (IterationOn(p, dt, "s", exact) /\ ~recording) =>
              (pc' = "start_call" /\ back_start' = None)
        /\ (IterationOn(p, dt, "e", exact) /\ recording) =>
              (pc' = "stop" /\ stopCtx' = "manual")
    ]_vars

\* C16: with no transport failure, when summarize_chunked has returned, it
\* has issued one request, a direct one, if L <= C, and otherwise ceil(L/C)
\* chunk requests followed by one combine request, whatever the chunk
\* summaries were (all empty included); each request is one POST.
C16_RequestCount ==
  (summary_text # "none" /\ sleeps = 0) =>
    LET L == transcript_len[1]
        C == chunk_chars
        n == (L + C - 1) \div C
    IN  IF L <= C
          THEN reqLog = <<"direct">> /\ posts = 1
          ELSE /\ reqLog = [k \in 1..(n + 1) |->
                              IF k <= n THEN "chunk" ELSE "combine"]
               /\ Len(chunks) = n /\ posts = n + 1

C16_Witness ==
  /\ summary_text # "none" /\ sleeps = 0
  /\ transcript_len = Some(MaxLen) /\ chunk_chars = 2
  /\ Len(reqLog) = ((MaxLen + 1) \div 2) + 1
  /\ \A k \in 1..Len(chunks) : ~chunks[k]

\* C17: one logical request makes at most max_retries POSTs, each but the
\* last after a transport failure of the one before; it makes no POST after
\* an attempt that did not raise a transport failure; and when max_retries
\* attempts have all raised transport failures the error is raised and the
\* worker exits with code 4.
C17_AtMostMaxRetries ==
  /\ reqPosts <= MaxRetries
  /\ reqPosts - reqSleeps \in {0, 1}
  /\ (w_pc = "post") => (reqPosts = reqSleeps /\ reqPosts < MaxRetries)
  /\ (reqSleeps = MaxRetries) <=> (w_error = "transport")
  /\ (w_error = "transport") =>
        (w_pc = "exit" /\ exit_code = Some(4) /\ reqPosts = MaxRetries)

C17_Witness ==
  /\ w_pc = "exit" /\ w_error = "transport" /\ req = "combine"
  /\ reqPosts = MaxRetries /\ posts > MaxRetries

\* C18 (as stated): once a response with an error status or a non-JSON body
\* has come back, its logical request has made exactly one POST and no
\* backoff sleep, and the run has ended with the fatal-error exit code.
C18_ErrorResponseSinglePost ==
  badResponse =>
    (/\ reqPosts = 1 /\ reqSleeps = 0
     /\ w_pc = "exit" /\ exit_code = Some(5))

\* C18 (amended): once a response with an error status or a non-JSON body
\* has come back, the run has ended with the fatal-error exit code, so that
\* POST was the last one and no sleep, chunk or combine request follows it;
\* its logical request has made one POST more than the transport failures
\* retried before it (exactly one POST and no sleep when there were none).
C18_ErrorResponseNotRetried ==
  badResponse =>
    (/\ w_pc = "exit" /\ exit_code = Some(5)
     /\ w_error \in {"status", "nonjson"}
     /\ reqPosts = reqSleeps + 1
     /\ summary_text = "none" /\ "summary" \notin files)

C18_Witness ==
  /\ badResponse /\ req = "chunk" /\ reqPosts = 2 /\ reqSleeps = 1
  /\ Len(reqLog) < ((transcript_len[1] + chunk_chars - 1) \div chunk_chars) + 1

\* C19: when the transcriber has returned empty text, the run has ended with
\* the empty-transcript error, no request was sent, and no artifact was
\* written.
C19_EmptyTranscriptWritesNothing ==
  (transcript_len = Some(0)) =>
    (/\ w_pc = "exit" /\ w_error = "empty_transcript" /\ exit_code = Some(5)
     /\ posts = 0 /\ reqLog = <<>>
     /\ files = {} /\ writes = <<>>)

C19_Witness ==
  /\ transcript_len = Some(0) /\ w_pc = "exit" /\ tmp_dir

\* C20: the artifacts written so far are a prefix of transcript, summary,
\* metadata, at every point of the run; so the metadata file exists only if
\* the transcript and the summary file exist.
C20_ArtifactOrder ==
  /\ \E n \in 0..3 : writes = SubSeq(<<"transcript", "summary", "meta">>, 1, n)
  /\ files = {writes[k] : k \in 1..Len(writes)}
  /\ ("meta" \in files) => ({"transcript", "summary"} \subseteq files)

C20_Witness ==
  /\ exit_code = Some(0)
  /\ writes = <<"transcript", "summary", "meta">>

\* C21: at the end of every pipeline run, successful or failed, the temporary
\* directory made by the audio extraction has been removed.
C21_TempDirRemoved == (w_pc = "exit") => ~tmp_dir

\* C22: the worker exits with 0 exactly when the whole pipeline succeeded
\* (all three artifacts written), and with 2 for a missing input, 3 for a
\* transcoding failure, 4 for a network error, 5 for a configuration error
\* and 1 for an unexpected error: five distinct non-zero codes.
C22_ExitCodes ==
  (w_pc = "exit") =>
    /\ (exit_code = Some(0)) <=> (w_error = "none")
    /\ (exit_code = Some(0)) => (writes = <<"transcript", "summary", "meta">>)
    /\ (w_error = "no_input") => (exit_code = Some(2))
    /\ (w_error = "ffmpeg_failed") => (exit_code = Some(3))
    /\ (w_error \in {"transport", "other_error"}) => (exit_code = Some(4))
    /\ (w_error \in {"bad_config", "missing_key"}) => (exit_code = Some(5))
    /\ (w_error \in {"no_wav", "model_error"}) => (exit_code = Some(1))

C22_Witness ==
  /\ w_pc = "exit" /\ w_error = "ffmpeg_failed" /\ exit_code = Some(3)

\* C23: when a run has failed with a failure of one class of the taxonomy,
\* its exit code is not the exit code of any failure of another class.
C23_CodeIdentifiesClass ==
  LET ClassOf(e) ==
        CASE e = "no_ffmpeg" -> "ToolNotFound"
          [] e = "ffmpeg_failed" -> "ExtractionFailed"
          [] e = "empty_transcript" -> "EmptyTranscript"
          [] e = "status" -> "SummaryHttpError"
          [] e = "transport" -> "SummaryTransportError"
          [] e \in {"bad_config", "missing_key"} -> "ConfigInvalid"
      Taxonomy == {"no_ffmpeg", "ffmpeg_failed", "empty_transcript", "status",
                   "transport", "bad_config", "missing_key"}
  IN  (w_pc = "exit" /\ w_error \in Taxonomy) =>
        \A e \in Taxonomy :
           (ClassOf(e) # ClassOf(w_error)) => (Some(ExitCodeOf(e)) # exit_code)

\* C24: when the summary client returned empty text (for a transcript that
\* is not empty), the summary artifact holds the placeholder, the metadata
\* artifact is written after it, and the run ends with exit code 0.
C24_EmptySummaryPlaceholder ==
  (summary_text = "empty") =>
    /\ transcript_len # None /\ transcript_len[1] > 0
    /\ ("summary" \in files) => (summary_kind = "placeholder")
    /\ ("meta" \in files) => ("summary" \in files)
    /\ (w_pc = "exit") =>
          (/\ exit_code = Some(0)
           /\ writes = <<"transcript", "summary", "meta">>)

C24_Witness ==
  /\ summary_text = "empty" /\ w_pc = "exit" /\ exit_code = Some(0)
  /\ summary_kind = "placeholder" /\ req = "combine"

\* C25: at most one worker started by the monitor is running, and the
\* monitor examines or dispatches a file only while none is running.
C25_OneWorkerAtATime ==
  LET running == {f \in 1..MaxFiles : m_workers[f] = "running"} IN
  /\ Cardinality(running) <= 1
  /\ (m_pc \in {"scan", "iter", "stat"}) => (running = {})
  /\ (m_pc = "wait") => (running = {m_cur[1]})

C25_Witness ==
  /\ m_pc = "wait"
  /\ \E f, g \in 1..MaxFiles :
       m_workers[f] \in {"ok", "failed"} /\ m_workers[g] = "running"

\* C26: the chunks of a transcript of length L > C start at offset 0, each
\* starts where the one before ends, every chunk but the last has C
\* characters, the last has between 1 and C, and once the combine request is
\* reached the chunks end at L.
C26_ChunksPartition ==
  LET n == Len(spans) IN
  /\ (req = "chunk") => (n > 0 /\ transcript_len[1] > chunk_chars)
  /\ (n > 0) => (spans[1][1] = 0)
  /\ \A k \in 1..n :
        /\ spans[k][1] < spans[k][2]
        /\ spans[k][2] - spans[k][1] <= chunk_chars
        /\ spans[k][2] <= transcript_len[1]
  /\ \A k \in 1..(n - 1) :
        /\ spans[k + 1][1] = spans[k][2]
        /\ spans[k][2] - spans[k][1] = chunk_chars
  /\ (req = "combine") => (n > 0 /\ spans[n][2] = transcript_len[1])

C26_Witness ==
  /\ req = "combine" /\ chunk_chars = 2
  /\ spans = <<<<0, 2>>, <<2, 4>>, <<4, 5>>>>

\* C27: the lines of the combine prompt are the chunk summaries that are not
\* empty, one line for each, in the order of their chunks.
C27_CombineLines ==
  (req = "combine") =>
    /\ \A i, j \in 1..Len(combine_lines) :
          (i < j) => (combine_lines[i] < combine_lines[j])
    /\ {combine_lines[i] : i \in 1..Len(combine_lines)}
          = {k \in 1..Len(chunks) : chunks[k]}

C27_Witness ==
  /\ req = "combine" /\ Len(chunks) = 3
  /\ chunks[1] /\ ~chunks[2] /\ chunks[3]
  /\ combine_lines = <<1, 3>>

\* C28: the k-th backoff sleep of a logical request lasts 2 s for k = 1, 4 s
\* for k = 2 and 8 s from k = 3 on, never more than 8 s.
C28_BackoffDelays ==
  /\ Len(backoffs) = reqSleeps
  /\ \A k \in 1..Len(backoffs) :
        /\ backoffs[k] = (IF k = 1 THEN 2 ELSE IF k = 2 THEN 4 ELSE 8)
        /\ backoffs[k] <= 8

C28_Witness == backoffs = <<2, 4, 8>>

\* C29: every backoff sleep is followed by another POST attempt of the same
\* request.
C29_SleepsOnlyBetweenAttempts ==
  [][ (sleeps' = sleeps + 1) => (w_pc' = "post" /\ req' = req) ]_vars

\* C30: with min_away_ms = 0 an absent sample in the idle state that finds the
\* away timer unset requests the start on that same sample, and with
\* return_ms = 0 a present sample while recording that finds the back timer
\* unset requests the stop on that same sample.
C30_ThresholdOnTimerSample ==
  [][ \A dt \in 1..MaxDt :
        /\ (/\ IterationOn(FALSE, dt, "none", TRUE)
            /\ ~recording /\ away_start = None /\ min_away_ms = 0)
              => (pc' = "start_call")
        /\ (/\ IterationOn(TRUE, dt, "none", TRUE)
            /\ recording /\ back_start = None /\ return_ms = 0)
              => (pc' = "stop")
    ]_vars

\* C31: a stop requested by the return timer leaves the sampling loop running
\* in the idle state, so that a later absent run can start a new session.
C31_LoopContinuesAfterGateStop ==
  [][ (stopCtx = "gate" /\ recording /\ ~recording') => (pc' = "loop") ]_vars

\* C33: the worker exits with the transcoding-failure code (3) both when
\* ffmpeg exits non-zero and when it exits zero without producing the wav.
C33_ExtractionFailuresSameCode ==
  (w_pc = "exit" /\ w_error \in {"ffmpeg_failed", "no_wav"})
     => (exit_code = Some(3))

\* C36: once summarization has failed fatally (non-retryable status, non-JSON
\* body, exhausted transport retries, missing client key) after a non-empty
\* transcript, the run has written the transcript and nothing else.
C36_FailedSummaryKeepsTranscriptOnly ==
  (w_error \in {"status", "nonjson", "transport", "missing_key"})
     => (/\ transcript_len # None /\ transcript_len[1] > 0
         /\ writes = <<"transcript">>
         /\ files = {"transcript"})

C36_Witness ==
  /\ w_pc = "exit" /\ w_error = "nonjson" /\ req = "combine"
  /\ files = {"transcript"}

\* C32: stop_ffmpeg_record on a running process writes the stop character
\* first, without killing; a kill happens only to the running process of the
\* handle, after the wait that follows the write or when the write failed; and
\* when the call returns the process is not running any more.
C32_GracefulThenKill ==
  [][ /\ (StopEnter /\ qWrites' # qWrites) =>
            (/\ procs[ff_proc[1]] = "running" /\ qWrites' = qWrites + 1
             /\ procs' = procs /\ pc' = "stop_wait")
      /\ \A i \in 1..NumAttempts :
            ((StopEnter \/ StopFinish) /\ procs'[i] = "killed" /\ procs[i] # "killed")
               => (/\ procs[i] = "running" /\ ff_proc = Some(i)
                   /\ (pc = "stop_wait" \/ qWrites' = qWrites))
      /\ ((StopEnter \/ StopFinish) /\ pc' \notin {"stop", "stop_wait"}
            /\ ff_proc # None)
               => (procs'[ff_proc[1]] # "running")
    ]_vars

C32_Witness ==
  /\ stopCtx = "gate" /\ pc = "finally" /\ ~recording /\ qWrites = 1
  /\ ff_proc # None /\ procs[ff_proc[1]] = "exited"

\* C38: within one monitor process a file is dispatched at most once: the
\* worker is started only on a file that is not in SEEN and has had no
\* worker, the file enters SEEN with that dispatch and never leaves it,
\* whatever the worker's outcome; a file whose two sizes differ or are zero
\* is neither dispatched nor marked seen, and every pass lists it again.
C38_DispatchedAtMostOnce ==
  [][ /\ SEEN \subseteq SEEN'
      /\ \A f \in 1..MaxFiles :
           /\ (m_workers'[f] = "running" /\ m_workers[f] # "running")
                 => (m_workers[f] = "none" /\ f \notin SEEN /\ f \in SEEN')
           /\ (f \in SEEN' /\ f \notin SEEN)
                 => (/\ m_workers'[f] = "running" /\ m_cur = Some(f)
                     /\ m_s1 = m_size[f][1] /\ m_s1 > 0)
      /\ (/\ m_pc = "stat" /\ m_pc' # "stat"
          /\ ~(m_s1 = m_size[m_cur[1]][1] /\ m_s1 > 0))
            => (SEEN' = SEEN /\ m_workers' = m_workers)
      /\ (m_pc = "scan" /\ m_pc' = "iter")
            => (\A f \in 1..MaxFiles : m_size[f] # None => f \in m_todo')
      /\ (m_pc = "iter" /\ m_pc' = "stat") => (m_cur' # None /\ m_cur'[1] \notin SEEN)
    ]_vars

C38_Witness ==
  /\ m_workers[1] = "failed" /\ 1 \in SEEN /\ 1 \in m_todo
  /\ m_pc = "stat" /\ m_cur = Some(2) /\ 2 \notin SEEN
  /\ m_s1 # m_size[2][1]

\* C39: no worker runs on a file whose capture process is still running.
C39_NoDispatchWhileWriting ==
  \A f \in 1..MaxFiles : (m_workers[f] = "running") => (f \notin m_open)

\* C37: after any sequence of runs on one input stem, whenever the metadata
\* file exists the transcript and the summary on disk were written by the
\* run that wrote the metadata.
C37_MetaMarksItsOwnRun ==
  (w_pc = "exit" /\ disk["meta"] # 0)
     => (disk["transcript"] = disk["meta"] /\ disk["summary"] = disk["meta"])

\* C40: once the quit key has been pressed the monitoring loop eventually
\* ends with no capture process left running, whatever the camera does.
C40_QuitEventuallyEndsLoop ==
  wr_quit ~> (wr_pc = "done" /\ Running(wr_procs) = {})

\* C34 (as stated): when the parser has finished, what it yielded is the
\* sequence of the non-empty textResponse pieces of the lines that decode to
\* an object, in stream order, up to and including the first such line whose
\* close flag is true, and no other line (empty, not JSON, or any other)
\* has made it abort.
C34_StopsAtFirstClose ==
  (s_pc # "stream") =>
    LET nl == {i \in 1..Len(s_text) : s_text[i] = NL}
        From(j) == IF \E i \in nl : i < j
                     THEN (CHOOSE i \in nl : i < j /\ \A h \in nl : h < j => h <= i) + 1
                     ELSE 1
        Line(j) == StripPrefix(SubSeq(s_text, From(j), j - 1))
        IsObject(j) == Len(Line(j)) = 1 /\ Line(j)[1] \in {"a", "b", "z", "c"}
        IsClose(j) == IsObject(j) /\ Line(j)[1] \in {"z", "c"}
        stop == IF \E j \in nl : IsClose(j)
                  THEN CHOOSE j \in nl : IsClose(j) /\ \A h \in nl : IsClose(h) => j <= h
                  ELSE Len(s_text) + 1
        Yields(j) == j \in nl /\ j <= stop /\ IsObject(j) /\ Line(j)[1] # "c"
        at == SelectSeq([i \in 1..Len(s_text) |-> i], Yields)
    IN /\ yielded = [k \in 1..Len(at) |-> Line(at[k])[1]]
       /\ s_pc = (IF stop <= Len(s_text) THEN "closed" ELSE "ended")

\* C34 (amended): the same, where the parser also stops, with the
\* AttributeError of parsed.get, at the first line that decodes to a JSON
\* value which is not an object: it yields the pieces of the object lines up
\* to the first line that is a close line or such a non-object line, and
\* lines that are empty or not valid JSON are skipped without aborting.
C34_StopsAtCloseOrNonObject ==
  (s_pc # "stream") =>
    LET nl == {i \in 1..Len(s_text) : s_text[i] = NL}
        From(j) == IF \E i \in nl : i < j
                     THEN (CHOOSE i \in nl : i < j /\ \A h \in nl : h < j => h <= i) + 1
                     ELSE 1
        Line(j) == StripPrefix(SubSeq(s_text, From(j), j - 1))
        IsObject(j) == Len(Line(j)) = 1 /\ Line(j)[1] \in {"a", "b", "z", "c"}
        IsClose(j) == IsObject(j) /\ Line(j)[1] \in {"z", "c"}
        IsNonObject(j) == Line(j) = <<"n">>
        Stops(j) == IsClose(j) \/ IsNonObject(j)
        stop == IF \E j \in nl : Stops(j)
                  THEN CHOOSE j \in nl : Stops(j) /\ \A h \in nl : Stops(h) => j <= h
                  ELSE Len(s_text) + 1
        Yields(j) == j \in nl /\ j <= stop /\ IsObject(j) /\ Line(j)[1] # "c"
        at == SelectSeq([i \in 1..Len(s_text) |-> i], Yields)
    IN /\ yielded = [k \in 1..Len(at) |-> Line(at[k])[1]]
       /\ s_pc = (IF stop > Len(s_text) THEN "ended"
                  ELSE IF IsClose(stop) THEN "closed" ELSE "error")

C34_Witness ==
  /\ s_pc = "closed" /\ s_text = <<"z", NL, "a", NL>> /\ yielded = <<"z">>
  /\ s_pos = 4 /\ buffer = <<"a", NL>>

\* C35: whatever the cuts, after any part of the response has been handed
\* over the pieces yielded, the text waiting in the buffer and the way the
\* generator has ended are those of the same part handed over as one chunk.
C35_ChunkingInvisible ==
  LET whole == Drain(SubSeq(s_text, 1, s_pos), <<>>)
  IN /\ yielded = whole.out
     /\ buffer = whole.buffer
     /\ whole.pc = (IF s_pc = "ended" THEN "stream" ELSE s_pc)

C35_Witness ==
  /\ s_text = <<"a", NL, "da", "ta">> /\ s_pos = 3 /\ s_pc = "stream"
  /\ yielded = <<"a">> /\ buffer = <<"da">>

====
